---- MODULE Spec2Model ----
(***************************************************************************)
(* Pitch detection (dsp.rs), pitch correction (autotune.rs) and the        *)
(* pattern store (learning.rs) of the musicai core library, as a state     *)
(* machine whose actions are the calls of the library and whose state      *)
(* holds the instance, the arguments and the result of the last call.      *)
(*                                                                         *)
(* f32 and f64 values are modelled as binary floating-point numbers        *)
(* m * 2^e with a significand of Precision bits, an unbounded exponent,    *)
(* round-to-nearest-even, NaN and +-Inf.  Both Rust types share the one    *)
(* format, so `as f32` and `as f64` between them are exact; the sign of    *)
(* zero and exponent overflow/underflow are not modelled.                  *)
(***************************************************************************)
EXTENDS Integers, Sequences, FiniteSets, TLC

(***************************************************************************)
(* Floating-point layer                                                    *)
(***************************************************************************)
Precision == 13

\* significands are below Limit in absolute value
Limit == 2^Precision

Abs(x) == IF x < 0 THEN -x ELSE x

Sgn(x) == IF x < 0 THEN -1 ELSE IF x > 0 THEN 1 ELSE 0

Min(x, y) == IF x < y THEN x ELSE y

\* number of binary digits of a natural number
RECURSIVE BitLen(_)
BitLen(x) == IF x = 0 THEN 0 ELSE 1 + BitLen(x \div 2)

Fin(m, e) == [c |-> "fin", m |-> m, e |-> e]

NaN == [c |-> "nan", m |-> 0, e |-> 0]

Inf(s) == [c |-> "inf", m |-> s, e |-> 0]

IsNaN(a) == a.c = "nan"

IsFinite(a) == a.c = "fin"

\* The one representation of m * 2^e, for 0 < |m| < 2^Precision: an integer
\* below 2^Precision has exponent 0, every other value a full-width significand
Canon(m, e) ==
    LET k == BitLen(Abs(m))
    IN  IF e >= 0 /\ k + e <= Precision THEN Fin(m * 2^e, 0)
        ELSE IF e < 0 /\ -e < Precision /\ m % 2^(-e) = 0 THEN Fin(m \div 2^(-e), 0)
        ELSE Fin(m * 2^(Precision - k), e - (Precision - k))

\* The float nearest to m * 2^e, ties to the even significand
Round(m, e) ==
    IF m = 0 \/ (e = 0 /\ m < Limit /\ -m < Limit) THEN Fin(m, 0)
    ELSE LET a == Abs(m)
             k == BitLen(a)
         IN  IF k <= Precision THEN Canon(m, e)
             ELSE LET s  == k - Precision
                      q  == a \div 2^s
                      r  == a % 2^s
                      up == r > 2^(s - 1) \/ (r = 2^(s - 1) /\ q % 2 = 1)
                      q1 == IF up THEN q + 1 ELSE q
                  IN  IF q1 = 2^Precision
                      THEN Canon(Sgn(m) * 2^(Precision - 1), e + s + 1)
                      ELSE Canon(Sgn(m) * q1, e + s)

\* `i as f32`, `i as f64`
FromInt(i) == Round(i, 0)

\* the position of the leading bit of a finite non-zero float
Top(a) == BitLen(Abs(a.m)) + a.e

FAdd(a, b) ==
    IF a.c = "fin" /\ b.c = "fin"
    THEN IF a.e = 0 /\ b.e = 0 THEN Round(a.m + b.m, 0)
         ELSE IF a.m = 0 THEN b
         ELSE IF b.m = 0 THEN a
         ELSE IF Top(a) - Top(b) >= Precision + 3 THEN a
         ELSE IF Top(b) - Top(a) >= Precision + 3 THEN b
         ELSE LET e == Min(a.e, b.e)
              IN  Round(a.m * 2^(a.e - e) + b.m * 2^(b.e - e), e)
    ELSE IF IsNaN(a) \/ IsNaN(b) THEN NaN
    ELSE IF a.c = "inf" /\ b.c = "inf" THEN (IF a.m = b.m THEN a ELSE NaN)
    ELSE IF a.c = "inf" THEN a
    ELSE b

FNeg(a) == [a EXCEPT !.m = -a.m]

FSub(a, b) == FAdd(a, FNeg(b))

FAbs(a) == [a EXCEPT !.m = Abs(a.m)]

FMul(a, b) ==
    IF a.c = "fin" /\ b.c = "fin" THEN Round(a.m * b.m, a.e + b.e)
    ELSE IF IsNaN(a) \/ IsNaN(b) THEN NaN
    ELSE IF a.m = 0 \/ b.m = 0 THEN NaN
    ELSE Inf(Sgn(a.m) * Sgn(b.m))

\* The quotient of the significands to Precision + 1 bits and a sticky bit,
\* then rounded: the correctly rounded quotient
FDiv(a, b) ==
    IF a.c = "fin" /\ b.c = "fin"
    THEN IF b.m = 0 THEN (IF a.m = 0 THEN NaN ELSE Inf(Sgn(a.m)))
         ELSE IF a.m = 0 THEN Fin(0, 0)
         ELSE LET sh  == 2 * Precision + 1 - BitLen(Abs(a.m))
                  num == Abs(a.m) * 2^sh
                  q   == num \div Abs(b.m)
                  st  == IF num % Abs(b.m) = 0 THEN 0 ELSE 1
              IN  Round(Sgn(a.m) * Sgn(b.m) * (2 * q + st), a.e - sh - b.e - 1)
    ELSE IF IsNaN(a) \/ IsNaN(b) THEN NaN
    ELSE IF a.c = "inf" /\ b.c = "inf" THEN NaN
    ELSE IF a.c = "inf" THEN Inf(a.m * (IF b.m < 0 THEN -1 ELSE 1))
    ELSE Fin(0, 0)

\* the largest r in [lo, hi] with r * r <= x
RECURSIVE ISqrt(_, _, _)
ISqrt(x, lo, hi) ==
    IF lo >= hi THEN lo
    ELSE LET mid == (lo + hi + 1) \div 2
         IN  IF mid * mid <= x THEN ISqrt(x, mid, hi) ELSE ISqrt(x, lo, mid - 1)

\* f32::sqrt, correctly rounded
FSqrt(a) ==
    IF IsNaN(a) THEN NaN
    ELSE IF a.m < 0 THEN NaN
    ELSE IF a.c = "inf" \/ a.m = 0 THEN a
    ELSE LET s0  == 2 * Precision + 1 - BitLen(a.m)
             sh  == IF (a.e - s0) % 2 = 0 THEN s0 ELSE s0 + 1
             x   == a.m * 2^sh
             r   == ISqrt(x, 0, 2^(Precision + 2))
             st  == IF r * r = x THEN 0 ELSE 1
         IN  Round(2 * r + st, ((a.e - sh) \div 2) - 1)

\* IEEE comparisons: false whenever an operand is NaN
FLt(a, b) ==
    /\ ~IsNaN(a)
    /\ ~IsNaN(b)
    /\ IF a.c = "fin" /\ b.c = "fin"
       THEN (IF a.e = 0 /\ b.e = 0 THEN a.m < b.m ELSE FSub(a, b).m < 0)
       ELSE IF a.c = "inf" /\ b.c = "inf" THEN a.m < b.m
       ELSE IF a.c = "inf" THEN a.m < 0
       ELSE b.m > 0

FLe(a, b) == ~IsNaN(a) /\ ~IsNaN(b) /\ ~FLt(b, a)

\* The value `as usize` saturates at.  Every index at or above the length of
\* a buffer behaves alike, so the model takes the largest integer TLC has.
UsizeMax == 2147483647

\* `x as usize`: truncation toward zero, saturating at both ends; NaN becomes 0
AsUsize(a) ==
    IF IsNaN(a) THEN 0
    ELSE IF a.c = "inf" THEN (IF a.m > 0 THEN UsizeMax ELSE 0)
    ELSE IF a.m <= 0 THEN 0
    ELSE IF a.e >= 0 THEN (IF Top(a) > 30 THEN UsizeMax ELSE a.m * 2^a.e)
    ELSE IF -a.e > 30 THEN 0
    ELSE a.m \div 2^(-a.e)

\* the decimal literal num / den of the source
Lit(num, den) == FDiv(FromInt(num), FromInt(den))

(***************************************************************************)
(* State                                                                   *)
(***************************************************************************)
VARIABLES
    sample_rate,  \* config.sample_rate of the engine / detector (set by `new`)
    call,         \* the last call: "new", "process", "detect", "parabolic_interpolation"
    arg,          \* its arguments
    ret,          \* its result
    tr,           \* the values of its local variables, for the properties about them
    patterns,     \* LearningEngine: self.patterns
    max_patterns, \* LearningEngine: self.max_patterns
    stored        \* the patterns handed to store_pattern so far, in call order

vars == <<sample_rate, call, arg, ret, tr, patterns, max_patterns, stored>>

\* the fields of the LearningEngine and the record of its calls
learning == <<patterns, max_patterns, stored>>

Ok(v) == [tag |-> "Ok", value |-> v]

Err(msg) == [tag |-> "Err", value |-> msg]

(***************************************************************************)
(* dsp.rs: PitchDetector                                                   *)
(***************************************************************************)
MinSamples == 512

\* A `for` loop over [lo, hi) is an operator over that range which runs the
\* range as its first half followed by its second half: a recursion of depth
\* log(hi - lo) over the same iterations.

\* dsp.rs 49-53: the sum of (buffer[j] - buffer[j + tau])^2 over j in [lo, hi).
\* The squares and their partial sums are integers below Limit for the buffers
\* of the model, so the order of the additions does not change the sum.
RECURSIVE DiffSum(_, _, _, _)
DiffSum(buffer, tau, lo, hi) ==
    IF hi <= lo THEN FromInt(0)
    ELSE IF hi = lo + 1
    THEN LET delta == FSub(buffer[lo + 1], buffer[lo + tau + 1])
         IN  FMul(delta, delta)
    ELSE LET mid == (lo + hi) \div 2
         IN  FAdd(DiffSum(buffer, tau, lo, mid), DiffSum(buffer, tau, mid, hi))

\* dsp.rs 47-55: diff[tau] for tau in [lo, hi), in order
RECURSIVE DiffLoop(_, _, _)
DiffLoop(buffer, lo, hi) ==
    IF hi <= lo THEN <<>>
    ELSE IF hi = lo + 1
    THEN <<DiffSum(buffer, lo, 0, Len(buffer) - lo)>>
    ELSE LET mid == (lo + hi) \div 2
         IN  DiffLoop(buffer, lo, mid) \o DiffLoop(buffer, mid, hi)

\* dsp.rs 61-63: the values of running_sum after each of the iterations
\* tau in [lo, hi), in order; `carry` is running_sum before iteration lo.
\* Every value is the previous one plus diff[tau], as in the source
\* (diff[tau] is element tau + 1 of the sequence).
RECURSIVE RunningSums(_, _, _, _)
RunningSums(diff, lo, hi, carry) ==
    IF hi <= lo THEN <<>>
    ELSE IF hi = lo + 1 THEN <<FAdd(carry, diff[lo + 1])>>
    ELSE LET mid   == (lo + hi) \div 2
             left  == RunningSums(diff, lo, mid, carry)
             right == RunningSums(diff, mid, hi, left[Len(left)])
         IN  left \o right

\* dsp.rs 62-65: cmnd[tau] for tau in [lo, hi), lo >= 1, in order
\* (sums[tau] is running_sum after iteration tau)
RECURSIVE CmndLoop(_, _, _, _)
CmndLoop(diff, sums, lo, hi) ==
    IF hi <= lo THEN <<>>
    ELSE IF hi = lo + 1
    THEN <<FDiv(diff[lo + 1], FDiv(sums[lo], FromInt(lo)))>>
    ELSE LET mid == (lo + hi) \div 2
         IN  CmndLoop(diff, sums, lo, mid) \o CmndLoop(diff, sums, mid, hi)

\* dsp.rs 57-65: the cmnd array for the difference function (cmnd[tau] is
\* element tau + 1; half_n is the length of diff)
CmndOf(diff) ==
    <<FromInt(1)>> \o
        CmndLoop(diff, RunningSums(diff, 1, Len(diff), FromInt(0)), 1, Len(diff))

\* dsp.rs 43-65: the cmnd array of a buffer
Cmnd(buffer) == CmndOf(DiffLoop(buffer, 0, Len(buffer) \div 2))

\* dsp.rs 68
threshold == Lit(1, 10)

\* The tests of the search written with the negated comparisons,
\* `!(cmnd[tau] >= threshold)` and `!(cmnd[tau] >= cmnd[tau + 1])`: they
\* differ from the source's on NaN, which passes them
TauFoundNegated(cmnd, tau) ==
    /\ ~FLe(threshold, cmnd[tau + 1])
    /\ tau + 1 < Len(cmnd)
    /\ ~FLe(cmnd[tau + 2], cmnd[tau + 1])

\* The search stopping at the first value below the threshold, without the
\* test for a local dip
TauFoundNoDip(cmnd, tau) == FLt(cmnd[tau + 1], threshold)

\* dsp.rs 72-76: does iteration tau of the search set tau_estimate and break?
TauFound(cmnd, tau) ==
    /\ FLt(cmnd[tau + 1], threshold)
    /\ tau + 1 < Len(cmnd)
    /\ FLt(cmnd[tau + 1], cmnd[tau + 2])

\* dsp.rs 69-78: the search over tau in [lo, hi): the first tau that sets
\* tau_estimate (the loop leaves through `break` there), 0 if none does
RECURSIVE TauSearch(_, _, _)
TauSearch(cmnd, lo, hi) ==
    IF hi <= lo THEN 0
    ELSE IF hi = lo + 1 THEN (IF TauFound(cmnd, lo) THEN lo ELSE 0)
    ELSE LET mid == (lo + hi) \div 2
             first == TauSearch(cmnd, lo, mid)
         IN  IF first # 0 THEN first ELSE TauSearch(cmnd, mid, hi)

\* dsp.rs 94-106
parabolic_interpolation(data, index) ==
    IF index = 0 \/ index >= Len(data) - 1 THEN FromInt(index)
    ELSE LET s0 == data[index]
             s1 == data[index + 1]
             s2 == data[index + 2]
             adjustment == FDiv(FMul(Lit(5, 10), FSub(s0, s2)),
                                FAdd(FSub(s0, FMul(FromInt(2), s1)), s2))
         IN  FAdd(FromInt(index), adjustment)

\* The operators of yin_algorithm return the record of the (frequency,
\* confidence) returned and of the local variables cmnd, tau_estimate and
\* tau_refined (NaN where the function returns before it is computed).

\* dsp.rs 87-90
YinFound(rate, cmnd, tau_estimate, tau_refined) ==
    [frequency    |-> FDiv(FromInt(rate), tau_refined),
     confidence   |-> FSub(FromInt(1), cmnd[tau_estimate + 1]),
     cmnd         |-> cmnd,
     tau_estimate |-> tau_estimate,
     tau_refined  |-> tau_refined]

\* dsp.rs 85-90
YinRefined(rate, cmnd, tau_estimate) ==
    YinFound(rate, cmnd, tau_estimate, parabolic_interpolation(cmnd, tau_estimate))

\* dsp.rs 80-90
YinEstimate(rate, cmnd, tau_estimate) ==
    IF tau_estimate = 0
    THEN [frequency |-> FromInt(0), confidence |-> FromInt(0),
          cmnd |-> cmnd, tau_estimate |-> 0, tau_refined |-> NaN]
    ELSE YinRefined(rate, cmnd, tau_estimate)

\* dsp.rs 67-90
YinSearch(rate, cmnd) == YinEstimate(rate, cmnd, TauSearch(cmnd, 2, Len(cmnd)))

\* yin_algorithm without the early return of lines 80-82
YinSearchUnguarded(rate, cmnd) ==
    YinRefined(rate, cmnd, TauSearch(cmnd, 2, Len(cmnd)))

yin_algorithm_unguarded(rate, buffer) == YinSearchUnguarded(rate, Cmnd(buffer))

\* dsp.rs 42-91
yin_algorithm(rate, buffer) == YinSearch(rate, Cmnd(buffer))

TooSmall == "Buffer too small for pitch detection"

\* dsp.rs 34-38: the record is (value returned, local variables of
\* yin_algorithm)
Detected(result) ==
    [ret |-> Ok([frequency |-> result.frequency, confidence |-> result.confidence]),
     tr  |-> [cmnd |-> result.cmnd,
              tau_estimate |-> result.tau_estimate,
              tau_refined |-> result.tau_refined]]

\* detect with the length test off by one: `buffer.len() <= 512`
detect_inclusive(rate, buffer) ==
    IF Len(buffer) <= MinSamples
    THEN [ret |-> Err(TooSmall), tr |-> <<>>]
    ELSE Detected(yin_algorithm(rate, buffer))

\* dsp.rs 28-39
detect(rate, buffer) ==
    IF Len(buffer) < MinSamples
    THEN [ret |-> Err(TooSmall), tr |-> <<>>]
    ELSE Detected(yin_algorithm(rate, buffer))

(***************************************************************************)
(* autotune.rs: AutotuneEngine                                             *)
(***************************************************************************)
\* A local variable that is read more than once is the parameter of an
\* operator that holds the rest of the function.

\* autotune.rs 85-89: the loop over i in [i, len - lag), state
\* (correlation, energy1, energy2)
RECURSIVE AcLoop(_, _, _, _)
AcLoop(buffer, lag, i, st) ==
    IF i >= Len(buffer) - lag THEN st
    ELSE AcLoop(buffer, lag, i + 1,
                [correlation |-> FAdd(st.correlation,
                                      FMul(buffer[i + 1], buffer[i + lag + 1])),
                 energy1     |-> FAdd(st.energy1,
                                      FMul(buffer[i + 1], buffer[i + 1])),
                 energy2     |-> FAdd(st.energy2,
                                      FMul(buffer[i + lag + 1], buffer[i + lag + 1]))])

\* autotune.rs 91: 1e-10
EnergyFloor == FMul(Lit(1, 100000), Lit(1, 100000))

\* autotune.rs 91-95: the value returned for the sums (correlation, energy1,
\* energy2) of the loop
Normalized(st) ==
    IF FLt(st.energy1, EnergyFloor) \/ FLt(st.energy2, EnergyFloor)
    THEN FromInt(0)
    ELSE FDiv(st.correlation, FSqrt(FMul(st.energy1, st.energy2)))

\* autotune.rs 80-96
autocorrelation(buffer, lag) ==
    Normalized(AcLoop(buffer, lag, 0, [correlation |-> FromInt(0),
                                       energy1 |-> FromInt(0),
                                       energy2 |-> FromInt(0)]))

\* autotune.rs 58
min_period(rate) == AsUsize(FDiv(FromInt(rate), FromInt(1000)))

\* autotune.rs 59
max_period(rate) == AsUsize(FDiv(FromInt(rate), FromInt(50)))

\* autotune.rs 66-69: (best_correlation, best_period) after an iteration
KeepBest(st, correlation, period) ==
    IF FLt(st.best_correlation, correlation)
    THEN [best_correlation |-> correlation, best_period |-> period]
    ELSE st

\* autotune.rs 64-70: the loop over period in [period, hi), state
\* (best_correlation, best_period)
RECURSIVE PeriodLoop(_, _, _, _)
PeriodLoop(buffer, period, hi, st) ==
    IF period >= hi THEN st
    ELSE PeriodLoop(buffer, period + 1, hi,
                    KeepBest(st, autocorrelation(buffer, period), period))

\* The search without the cap at half the buffer: lags up to max_period
PeriodSearchUncapped(rate, buffer) ==
    PeriodLoop(buffer, min_period(rate), Min(max_period(rate), Len(buffer)),
               [best_correlation |-> FromInt(0), best_period |-> min_period(rate)])

\* autotune.rs 58-70: (best_correlation, best_period) after the search
PeriodSearch(rate, buffer) ==
    PeriodLoop(buffer, min_period(rate),
               Min(max_period(rate), Len(buffer) \div 2),
               [best_correlation |-> FromInt(0), best_period |-> min_period(rate)])

\* autotune.rs 72-76: the value returned after the search
PitchOf(rate, st) ==
    IF FLt(st.best_correlation, Lit(5, 10)) THEN FromInt(0)
    ELSE FDiv(FromInt(rate), FromInt(st.best_period))

\* autotune.rs 56-77
estimate_pitch(rate, buffer) == PitchOf(rate, PeriodSearch(rate, buffer))

\* autotune.rs 110-119: buffer[i] for the source position i * ratio and the
\* index source_idx
Resampled(original, position, source_idx) ==
    IF source_idx < Len(original) - 1
    THEN FAdd(FMul(original[source_idx + 1],
                   FSub(FromInt(1), FSub(position, FromInt(source_idx)))),
              FMul(original[source_idx + 2], FSub(position, FromInt(source_idx))))
    ELSE IF source_idx < Len(original) THEN original[source_idx + 1]
    ELSE FromInt(0)

\* A resampler without the interpolation: the sample at the source index
ShiftedSampleNearest(original, ratio, i) ==
    IF AsUsize(FMul(FromInt(i), ratio)) < Len(original)
    THEN original[AsUsize(FMul(FromInt(i), ratio)) + 1]
    ELSE FromInt(0)

\* autotune.rs 108-119: buffer[i] after iteration i of the loop
ShiftedSample(original, ratio, i) ==
    Resampled(original, FMul(FromInt(i), ratio), AsUsize(FMul(FromInt(i), ratio)))

\* autotune.rs 100: is the shift skipped?
NoShiftNeeded(ratio) == FLt(FAbs(FSub(ratio, FromInt(1))), Lit(1, 1000))

\* A resampler that stops where the source runs out instead of writing 0.0:
\* it keeps the samples whose source index lies in the buffer
pitch_shift_truncating(buffer, ratio) ==
    IF NoShiftNeeded(ratio) THEN buffer
    ELSE SelectSeq([i \in 1..Len(buffer) |-> i],
                   LAMBDA i : AsUsize(FMul(FromInt(i - 1), ratio)) < Len(buffer))

\* autotune.rs 99-121: the buffer after the call, which mutates it
pitch_shift(buffer, ratio) ==
    IF NoShiftNeeded(ratio) THEN buffer
    ELSE [i \in 1..Len(buffer) |-> ShiftedSample(buffer, ratio, i - 1)]

\* The shift without the blend by strength: always the full pitch ratio
shift_amount_unblended(target_pitch, current_pitch, strength) ==
    FDiv(target_pitch, current_pitch)

\* autotune.rs 46-47
shift_amount(target_pitch, current_pitch, strength) ==
    FAdd(FMul(FSub(FDiv(target_pitch, current_pitch), FromInt(1)), strength),
         FromInt(1))

EmptyBuffer == "Empty buffer"

InvalidStrength == "Strength must be between 0.0 and 1.0"

\* A range test written with the negated comparisons, `!(strength < 0.0) &&
\* !(strength > 1.0)`: the two differ on NaN, which the variant accepts
StrengthNotOutside(strength) ==
    ~FLt(strength, FromInt(0)) /\ ~FLt(FromInt(1), strength)

\* autotune.rs 32: (0.0..=1.0).contains(&strength)
StrengthInRange(strength) == FLe(FromInt(0), strength) /\ FLe(strength, FromInt(1))

\* The operators of `process` return the record (ret, tr): the value returned
\* and the local variables at the return, with the branch taken.

\* autotune.rs 49-52, for the shift amount of line 47
Shifted(buffer, st, current_pitch, shift) ==
    [ret |-> Ok(pitch_shift(buffer, shift)),
     tr  |-> [branch |-> IF NoShiftNeeded(shift) THEN "no_shift" ELSE "resample",
              best_correlation |-> st.best_correlation,
              best_period |-> st.best_period,
              current_pitch |-> current_pitch,
              shift_amount |-> shift]]

\* autotune.rs 41-52, for the estimate of line 40
Corrected(buffer, target_pitch, strength, st, current_pitch) ==
    IF FLt(current_pitch, FromInt(50))
    THEN [ret |-> Ok(buffer),
          tr  |-> [branch |-> "no_pitch",
                   best_correlation |-> st.best_correlation,
                   best_period |-> st.best_period,
                   current_pitch |-> current_pitch]]
    ELSE Shifted(buffer, st, current_pitch,
                 shift_amount(target_pitch, current_pitch, strength))

\* autotune.rs 21-53
process(rate, buffer, target_pitch, strength) ==
    IF Len(buffer) = 0
    THEN [ret |-> Err(EmptyBuffer), tr |-> [branch |-> "error"]]
    ELSE IF ~StrengthInRange(strength)
    THEN [ret |-> Err(InvalidStrength), tr |-> [branch |-> "error"]]
    ELSE Corrected(buffer, target_pitch, strength, PeriodSearch(rate, buffer),
                   estimate_pitch(rate, buffer))

(***************************************************************************)
(* learning.rs: LearningEngine                                             *)
(***************************************************************************)
\* a call that does not return: the thread panics
Panic(msg) == [tag |-> "panic", value |-> msg]

\* Vec::remove(0) on an empty vector
RemoveOutOfBounds == "removal index (is 0) should be < len (is 0)"

\* learning.rs 31-37, on the fields (patterns, max_patterns) of the engine:
\* the record is (value returned, self.patterns after the call).  Vec::remove
\* tests its index before it moves anything, so a panic leaves the vector as
\* it was.
store_pattern(stored_patterns, capacity, pattern) ==
    IF Len(stored_patterns) >= capacity
    THEN IF Len(stored_patterns) = 0
         THEN [ret |-> Panic(RemoveOutOfBounds), patterns |-> stored_patterns]
         ELSE [ret |-> Ok(<<>>), patterns |-> Append(Tail(stored_patterns), pattern)]
    ELSE [ret |-> Ok(<<>>), patterns |-> Append(stored_patterns, pattern)]

(***************************************************************************)
(* Inputs                                                                  *)
(***************************************************************************)
\* longest buffer handed to `process`
MaxLen == 6

\* lib.rs 33: the default sample rate
DefaultRate == 48000

\* sample rates of the engines: lags from 1 (1000 Hz) or 2 (2000 Hz) fit in
\* buffers of MaxLen samples; at the default rate no lag does
EngineRates == {1000, 2000, DefaultRate}

SampleValues == {-1, 0, 1}

RECURSIVE Buffers(_)
Buffers(n) ==
    IF n = 0 THEN {<<>>}
    ELSE LET shorter == Buffers(n - 1)
         IN  shorter \cup {Append(b, FromInt(v)) : b \in {s \in shorter : Len(s) = n - 1},
                                                   v \in SampleValues}

\* target frequencies in Hz
Targets == {FromInt(-500), FromInt(0), FromInt(500), FromInt(2000)}

\* -0.1, 0, 0.5, 1, 1.1 and NaN
Strengths == {Lit(-1, 10), FromInt(0), Lit(5, 10), FromInt(1), Lit(11, 10), NaN}

\* buffers handed to `detect` are at most this much longer than MinSamples
MaxExtra == 1

Lengths == {0, 1, 100, MinSamples - 1} \cup (MinSamples .. MinSamples + MaxExtra)

\* Pulse waves <<P, W>>: sample j is 1 when j % P < W and 0 otherwise.  <<1, 0>>
\* is silence, <<1, 1>> a constant; the periods go up to the last lag of the
\* search (half_n - 1 = 255) and the widths from an impulse to a square wave.
Shapes ==
    {<<1, 0>>, <<1, 1>>, <<2, 1>>, <<3, 1>>, <<7, 3>>, <<40, 1>>, <<40, 20>>,
     <<100, 99>>, <<128, 64>>, <<254, 1>>, <<255, 127>>}

\* the first sample is raised by a glitch in 0 .. MaxGlitch
MaxGlitch == 1

WaveSample(shape, glitch, j) ==
    FromInt((IF j % shape[1] < shape[2] THEN 1 ELSE 0) + (IF j = 0 THEN glitch ELSE 0))

\* the samples j in [lo, hi) of a wave
RECURSIVE Wave(_, _, _, _)
Wave(shape, glitch, lo, hi) ==
    IF hi <= lo THEN <<>>
    ELSE IF hi = lo + 1 THEN <<WaveSample(shape, glitch, lo)>>
    ELSE LET mid == (lo + hi) \div 2
         IN  Wave(shape, glitch, lo, mid) \o Wave(shape, glitch, mid, hi)

\* arrays handed to parabolic_interpolation: up to MaxData values k / 4
MaxData == 3

MaxLevel == 4

Levels == {Lit(k, 4) : k \in 0..MaxLevel}

RECURSIVE DataArrays(_)
DataArrays(n) ==
    IF n = 1 THEN {<<v>> : v \in Levels}
    ELSE LET shorter == DataArrays(n - 1)
         IN  shorter \cup {Append(d, v) : d \in {s \in shorter : Len(s) = n - 1},
                                          v \in Levels}

\* largest capacity of a LearningEngine; 0 is a usize like any other
MaxCapacity == 2

\* number of store_pattern calls on one engine
MaxStores == 4

\* the patterns handed to store_pattern; it does not look into them
Patterns == {"p1", "p2", "p3"}

(***************************************************************************)
(* Actions and specifications                                              *)
(*                                                                         *)
(* Every call of the library is a pure function of the instance and its    *)
(* arguments, so a behaviour is one call: the initial state holds the      *)
(* constructed instance and the arguments the caller is about to pass, the *)
(* action is the call.                                                     *)
(***************************************************************************)
New(rates, args) ==
    /\ sample_rate \in rates
    /\ arg \in args
    /\ call = "new"
    /\ ret = <<>>
    /\ tr = <<>>
    /\ patterns = <<>>
    /\ max_patterns = 0
    /\ stored = <<>>

\* AutotuneEngine::new(config), then process(buffer, target_pitch, strength)
InitEngine ==
    New(EngineRates, [buffer : Buffers(MaxLen), target_pitch : Targets,
                      strength : Strengths])

\* the call returns: its value and its local variables are recorded
Returns(result) == ret' = result.ret /\ tr' = result.tr

Process ==
    /\ call = "new"
    /\ call' = "process"
    /\ Returns(process(sample_rate, arg.buffer, arg.target_pitch, arg.strength))
    /\ UNCHANGED <<sample_rate, arg, learning>>

NextEngine == Process

SpecEngine == InitEngine /\ [][NextEngine]_vars

\* PitchDetector::new(sample_rate), then detect(buffer)
InitDetector ==
    New({DefaultRate}, {[buffer |-> Wave(shape, glitch, 0, n)] :
                           n \in Lengths, shape \in Shapes, glitch \in 0..MaxGlitch})

Detect ==
    /\ call = "new"
    /\ call' = "detect"
    /\ Returns(detect(sample_rate, arg.buffer))
    /\ UNCHANGED <<sample_rate, arg, learning>>

NextDetector == Detect

SpecDetector == InitDetector /\ [][NextDetector]_vars

\* PitchDetector::new(sample_rate), then parabolic_interpolation(data, index)
InitInterpolation ==
    New({DefaultRate}, [data : DataArrays(MaxData), index : 0..MaxData])

Interpolate ==
    /\ call = "new"
    /\ call' = "parabolic_interpolation"
    /\ ret' = parabolic_interpolation(arg.data, arg.index)
    /\ tr' = <<>>
    /\ UNCHANGED <<sample_rate, arg, learning>>

NextInterpolation == Interpolate

SpecInterpolation == InitInterpolation /\ [][NextInterpolation]_vars

\* LearningEngine::new(max_patterns), then store_pattern(pattern) any number
\* of times (up to MaxStores); a caller that catches the panic of a call can
\* call again
InitLearning ==
    /\ max_patterns \in 0..MaxCapacity
    /\ patterns = <<>>
    /\ stored = <<>>
    /\ sample_rate = 0
    /\ call = "new"
    /\ arg = <<>>
    /\ ret = <<>>
    /\ tr = <<>>

\* the call returns or panics: its value and self.patterns are recorded
Stores(result) == ret' = result.ret /\ patterns' = result.patterns

StorePattern ==
    \E pattern \in Patterns :
        /\ Len(stored) < MaxStores
        /\ call' = "store_pattern"
        /\ arg' = [pattern |-> pattern]
        /\ stored' = Append(stored, pattern)
        /\ Stores(store_pattern(patterns, max_patterns, pattern))
        /\ UNCHANGED <<sample_rate, tr, max_patterns>>

NextLearning == StorePattern

SpecLearning == InitLearning /\ [][NextLearning]_vars

(***************************************************************************)
(* Properties of AutotuneEngine::process (SpecEngine)                      *)
(***************************************************************************)
\* Is the float a real number of [0, 1]?  Read off the representation: a
\* finite a >= 0 is below 1 exactly when its leading bit is below 2^0.
InUnitInterval(a) ==
    /\ IsFinite(a)
    /\ a.m >= 0
    /\ (a.m = 0 \/ Top(a) <= 0 \/ a = FromInt(1))

\* C1: process fails with the "Empty buffer" error on an empty buffer, and
\* with the invalid-strength error on a non-empty buffer whose strength is
\* not a number of [0, 1]: the result is the error alone, no samples come
\* with it, and the call leaves its input and the engine as they were.  On
\* every other input it succeeds.
C1_Result ==
    call = "process" =>
        IF Len(arg.buffer) = 0 THEN ret = Err(EmptyBuffer)
        ELSE IF ~InUnitInterval(arg.strength) THEN ret = Err(InvalidStrength)
        ELSE ret.tag = "Ok"

C1_ProcessErrors ==
    /\ []C1_Result
    /\ [][call' = "process" => (arg' = arg /\ sample_rate' = sample_rate)]_vars

\* process has rejected a strength of NaN on a non-empty buffer
C1_Witness ==
    /\ call = "process"
    /\ Len(arg.buffer) > 0
    /\ IsNaN(arg.strength)
    /\ tr.branch = "error"
    /\ ret = Err(InvalidStrength)

\* C2: the buffer a successful process returns has as many samples as the
\* buffer it was handed, in each of its three outcomes (no pitch detected,
\* shift of about 1, resampled).
C2_SameLength ==
    (call = "process" /\ ret.tag = "Ok") =>
        /\ tr.branch \in {"no_pitch", "no_shift", "resample"}
        /\ Len(ret.value) = Len(arg.buffer)

\* process has resampled a buffer with a shift that reads past its end
C2_Witness ==
    /\ call = "process"
    /\ ret.tag = "Ok"
    /\ tr.branch = "resample"
    /\ AsUsize(FMul(FromInt(Len(arg.buffer) - 1), tr.shift_amount)) >= Len(arg.buffer)
    /\ ret.value # arg.buffer

\* C3: with strength 0 and a non-empty buffer, process returns the samples
\* it was handed, whatever the (finite) target and the estimated pitch: when a
\* pitch is detected the shift amount is exactly 1 and the resampler is
\* skipped.
C3_ZeroStrengthIdentity ==
    (call = "process" /\ Len(arg.buffer) > 0 /\ arg.strength = FromInt(0)
                      /\ IsFinite(arg.target_pitch)) =>
        /\ ret = Ok(arg.buffer)
        /\ tr.branch # "no_pitch" =>
               tr.shift_amount = FromInt(1) /\ tr.branch = "no_shift"

\* process has run with strength 0 on a buffer whose detected pitch is not
\* the target
C3_Witness ==
    /\ call = "process"
    /\ arg.strength = FromInt(0)
    /\ tr.branch = "no_shift"
    /\ tr.current_pitch # arg.target_pitch
    /\ ret.value = arg.buffer

\* the lags [sampleRate/1000, min(sampleRate/50, length/2)) of the coarse search
C7_Lags ==
    (sample_rate \div 1000) ..
        (Min(sample_rate \div 50, Len(arg.buffer) \div 2) - 1)

\* C7: on a non-empty buffer with a valid strength, the coarse estimator
\* finds the largest normalized autocorrelation over the lags
\* [sampleRate/1000, min(sampleRate/50, length/2)).  When the best
\* correlation is below 0.5 (no lag at all, or no energy, included) process
\* succeeds and returns the input samples; otherwise the best lag is one of those
\* lags, none has a larger correlation, and the current pitch is
\* sampleRate / bestLag.
C7_CoarseEstimate ==
    (call = "process" /\ tr.branch # "error") =>
        /\ \A lag \in C7_Lags :
               ~FLt(tr.best_correlation, autocorrelation(arg.buffer, lag))
        /\ IF FLt(tr.best_correlation, Lit(5, 10))
           THEN /\ tr.branch = "no_pitch"
                /\ ret = Ok(arg.buffer)
           ELSE /\ tr.best_period \in C7_Lags
                /\ tr.best_correlation = autocorrelation(arg.buffer, tr.best_period)
                /\ tr.branch # "no_pitch"
                /\ tr.current_pitch =
                       FDiv(FromInt(sample_rate), FromInt(tr.best_period))

\* the estimator has picked a lag after the first one of its range and
\* process has resampled for the pitch it gives
C7_Witness ==
    /\ call = "process"
    /\ tr.branch = "resample"
    /\ tr.best_period > sample_rate \div 1000
    /\ tr.current_pitch = FromInt(500)

\* floor of a finite float >= 0
FloorNat(a) == IF a.e >= 0 THEN a.m * 2^a.e ELSE a.m \div 2^(-a.e)

\* output sample i of the resampler as the interpolation rule gives it
C8_Expected(input, shift, i) ==
    LET L         == Len(input)
        sourcePos == FMul(FromInt(i), shift)
        idx       == FloorNat(sourcePos)
        frac      == FSub(sourcePos, FromInt(idx))
    IN  IF idx + 1 < L
        THEN FAdd(FMul(input[idx + 1], FSub(FromInt(1), frac)),
                  FMul(input[idx + 2], frac))
        ELSE IF idx = L - 1 THEN input[idx + 1]
        ELSE FromInt(0)

NoPitch == [frequency |-> FromInt(0), confidence |-> FromInt(0)]

\* C4: detect fails, with the too-few-samples error, exactly when the
\* buffer has fewer than 512 samples; on every buffer of 512 samples or more
\* it succeeds, the no-pitch result included.
C4_InsufficientSamples ==
    call = "detect" =>
        IF Len(arg.buffer) < 512 THEN ret = Err(TooSmall) ELSE ret.tag = "Ok"

\* detect has succeeded on a buffer of exactly 512 samples
C4_Witness ==
    /\ call = "detect"
    /\ Len(arg.buffer) = 512
    /\ ret.tag = "Ok"

\* is the float a number that is not negative?
C5_Finite(a) == IsFinite(a) /\ a.m >= 0

\* C5: every successful result of detect on a buffer of finite samples is
\* well formed: the frequency is finite and not negative, the confidence is
\* a number of [0, 1], the frequency is 0 exactly when the confidence is 0,
\* and when a period was found the refined period the sample rate is divided
\* by is a finite number above 0.
C5_WellFormed ==
    (call = "detect" /\ ret.tag = "Ok") =>
        /\ C5_Finite(ret.value.frequency)
        /\ InUnitInterval(ret.value.confidence)
        /\ (ret.value.frequency = FromInt(0)) <=> (ret.value.confidence = FromInt(0))
        /\ tr.tau_estimate # 0 =>
               (IsFinite(tr.tau_refined) /\ tr.tau_refined.m > 0)

\* detect has found a period, refined it to a value between two lags and
\* returned a confidence strictly between 0 and 1
C5_Witness ==
    /\ call = "detect"
    /\ ret.tag = "Ok"
    /\ tr.tau_estimate # 0
    /\ tr.tau_refined # FromInt(tr.tau_estimate)
    /\ ret.value.confidence \notin {FromInt(0), FromInt(1)}

IsSilence(buffer) == \A j \in 1..Len(buffer) : buffer[j] = FromInt(0)

\* C6: on a buffer of 512 or more samples that are all zero, detect
\* succeeds with confidence 0 and frequency 0: the normalized difference is
\* undefined (0 / 0) at every lag from 1 on and no lag becomes a candidate.
C6_Silence ==
    (call = "detect" /\ Len(arg.buffer) >= 512 /\ IsSilence(arg.buffer)) =>
        /\ ret = Ok(NoPitch)
        /\ tr.tau_estimate = 0
        /\ \A tau \in 1 .. Len(tr.cmnd) - 1 : IsNaN(tr.cmnd[tau + 1])

\* detect has run on 512 or more samples of silence
C6_Witness ==
    /\ call = "detect"
    /\ Len(arg.buffer) >= 512
    /\ IsSilence(arg.buffer)
    /\ ret.tag = "Ok"

\* the lags tau >= 2 with cmnd[tau] < 0.1 and cmnd[tau] < cmnd[tau + 1],
\* tau + 1 inside the cmnd array of N / 2 values
C9_Candidates ==
    {tau \in 2 .. (Len(arg.buffer) \div 2) - 2 :
        /\ FLt(tr.cmnd[tau + 1], Lit(1, 10))
        /\ FLt(tr.cmnd[tau + 1], tr.cmnd[tau + 2])}

\* C9: the period detect settles on is the smallest tau >= 2 with
\* cmnd[tau] < 0.1 and cmnd[tau] < cmnd[tau + 1]; when there is none the
\* result is frequency 0 and confidence 0, and when there is one the
\* confidence is 1 - cmnd[tau] and the frequency is the sample rate divided
\* by the refined tau.
C9_FirstDip ==
    (call = "detect" /\ ret.tag = "Ok") =>
        /\ Len(tr.cmnd) = Len(arg.buffer) \div 2
        /\ IF C9_Candidates = {} THEN ret = Ok(NoPitch)
           ELSE LET tau == CHOOSE t \in C9_Candidates :
                               \A u \in C9_Candidates : t <= u
                IN  /\ tr.tau_estimate = tau
                    /\ tr.tau_refined = parabolic_interpolation(tr.cmnd, tau)
                    /\ ret.value.confidence = FSub(FromInt(1), tr.cmnd[tau + 1])
                    /\ ret.value.frequency =
                           FDiv(FromInt(sample_rate), tr.tau_refined)

\* detect has settled on a period after passing a smaller lag that is below
\* the threshold without being a dip
C9_Witness ==
    /\ call = "detect"
    /\ ret.tag = "Ok"
    /\ tr.tau_estimate # 0
    /\ \E t \in 2 .. tr.tau_estimate - 1 : FLt(tr.cmnd[t + 1], Lit(1, 10))

(***************************************************************************)
(* Properties of PitchDetector::parabolic_interpolation                    *)
(* (SpecInterpolation)                                                     *)
(***************************************************************************)
\* the denominator s0 - 2 * s1 + s2 at an interior index
C10_Denominator ==
    FAdd(FSub(arg.data[arg.index], FMul(FromInt(2), arg.data[arg.index + 1])),
         arg.data[arg.index + 2])

LastN(seq, n) == SubSeq(seq, Len(seq) - Min(n, Len(seq)) + 1, Len(seq))

\* C11: whatever the capacity max_patterns of the engine, after any
\* sequence of store_pattern calls the engine holds at most max_patterns
\* patterns, every call has returned, and the patterns held are the most
\* recently stored ones, in the order they were stored.
C11_BoundedRecent ==
    /\ Len(patterns) <= max_patterns
    /\ call = "store_pattern" => ret = Ok(<<>>)
    /\ patterns = LastN(stored, max_patterns)

====
